---------------------------- MODULE Spec2Model ----------------------------
(***************************************************************************)
(* A model of src/utils.py, the numeric helpers of the imputation          *)
(* workflow: normalization / renormalization, rounding, rmse_loss, the     *)
(* three seeded samplers and get_data.                                     *)
(*                                                                         *)
(* Arrays are sequences of rows, a row is a sequence of cells.  The        *)
(* arithmetic is exact (that of the reals): floating-point rounding error  *)
(* is not modelled.  Each function of the source is an operator of the     *)
(* same name; each group of callers is a specification of its own          *)
(* (SpecFit, SpecApply, SpecRmse, SpecSamplers, SpecThreads, SpecGetData,  *)
(* SpecRounding), in which the variables of the other groups stay idle.    *)
(***************************************************************************)
EXTENDS Integers, Sequences, FiniteSets, TLC

VARIABLES
  in_data,        \* normalization / renormalization: the caller's array
  in_parameters,  \* the caller's parameters (absent, or min_val and max_val)
  npc,            \* "start", "normalized", "renormalized", "renormalized_supplied", "error"
  norm_out,       \* what normalization returned
  renorm_out,     \* what renormalization returned
  rm_ori_data,    \* rmse_loss: its three arguments
  rm_imputed_data,
  rm_data_m,
  rpc,            \* "start", "returned", "error"
  rmse_out,       \* what rmse_loss returned
  rng,            \* the process-wide generator of np.random: its state
  call_a,         \* samplers: the first sampler call made and what it returned
  call_b,         \* the latest later call of the same sampler with the same arguments
  gd_X,           \* get_data: the caller's array X
  gd_miss_rate,   \* its argument miss_rate
  gpc,            \* "start", "returned"
  gd_out,         \* what get_data returned, and X as it was passed
  tpc,            \* threads: where each thread is, "idle", "seeded", "returned"
  tcall,          \* the sampler call each thread makes
  tval,           \* what the call returned
  tdisturbed,     \* whether the other thread used the generator between the
                  \* thread's reseed and its draw
  rd_imputed,     \* rounding: the caller's array imputed_data
  rd_data_x,      \* the caller's array data_x
  rdpc,           \* "start", "returned"
  rd_out          \* what rounding returned, and imputed_data as it was passed

normVars == <<in_data, in_parameters, npc, norm_out, renorm_out>>
rmseVars == <<rm_ori_data, rm_imputed_data, rm_data_m, rpc, rmse_out>>

samplerVars == <<call_a, call_b>>
getDataVars == <<gd_X, gd_miss_rate, gpc, gd_out>>

threadVars == <<tpc, tcall, tval, tdisturbed>>
roundVars == <<rd_imputed, rd_data_x, rdpc, rd_out>>

vars == <<normVars, rmseVars, rng, samplerVars, getDataVars, threadVars, roundVars>>

(***************************************************************************)
(* Bounds of the model.                                                    *)
(***************************************************************************)
MaxCells == 4      \* an array of the normalizer has at most MaxCells cells
MaxVal == 2        \* the numeric cells of an array to fit are 0..MaxVal
MaxParamLen == 3   \* a supplied min_val / max_val vector has at most MaxParamLen entries
MaxApplyVal == 1   \* where parameters are applied, cells and parameter entries are 0..MaxApplyVal
RngMod == 8        \* the generator has RngMod states
MaxSampleDim == 2  \* a sampled matrix has at most MaxSampleDim rows and columns
MaxTotal == 3      \* sample_batch_index: total is at most MaxTotal
MaxRoundRows == 21 \* the arrays given to rounding have at most MaxRoundRows rows

(***************************************************************************)
(* Numbers.  Every number the program computes from integer inputs is a    *)
(* quotient of two polynomials in e = 1e-6 with integer coefficients, and  *)
(* is kept as such: a polynomial is the sequence of its coefficients,      *)
(* <<c0, c1, c2>> standing for c0 + c1*e + c2*e^2, without trailing zeros  *)
(* (the zero polynomial is <<>>), and a number is [n |-> p, d |-> q],      *)
(* standing for p / q, with q positive.  Not-a-number has d = <<>>.        *)
(*                                                                         *)
(* The coefficients met here are far below 10^6 in absolute value.  For    *)
(* such polynomials the value at e = 10^-6 is zero only for the zero       *)
(* polynomial (a rational root 1/10^6 would make 10^6 divide the leading   *)
(* coefficient), and its sign is the sign of the lowest non-zero           *)
(* coefficient, so equality and order are decided exactly on the           *)
(* coefficients.                                                           *)
(***************************************************************************)
Abs(x) == IF x < 0 THEN -x ELSE x
Max(a, b) == IF a < b THEN b ELSE a
Min(a, b) == IF a < b THEN a ELSE b

RECURSIVE GCD(_, _)
GCD(a, b) == IF b = 0 THEN a ELSE GCD(b, a % b)

RECURSIVE PTrim(_)
PTrim(p) ==
  IF p = <<>> THEN p
  ELSE IF p[Len(p)] = 0 THEN PTrim(SubSeq(p, 1, Len(p) - 1)) ELSE p

PCoef(p, k) == IF k <= Len(p) THEN p[k] ELSE 0
PInt(k) == IF k = 0 THEN <<>> ELSE <<k>>
PNeg(p) == [k \in 1..Len(p) |-> -p[k]]
PAdd(p, q) == PTrim([k \in 1..Max(Len(p), Len(q)) |-> PCoef(p, k) + PCoef(q, k)])

RECURSIVE ConvSum(_, _, _, _)
ConvSum(p, q, k, i) ==
  IF i > Min(k, Len(p)) THEN 0 ELSE p[i] * q[k + 1 - i] + ConvSum(p, q, k, i + 1)

PMul(p, q) ==
  IF p = <<>> \/ q = <<>> THEN <<>>
  ELSE [k \in 1..(Len(p) + Len(q) - 1) |-> ConvSum(p, q, k, Max(1, k + 1 - Len(q)))]

RECURSIVE PContent(_)
PContent(p) == IF p = <<>> THEN 0 ELSE GCD(Abs(p[1]), PContent(Tail(p)))

\* the sign of the value of p at e = 1e-6
RECURSIVE PSign(_)
PSign(p) ==
  IF p = <<>> THEN 0
  ELSE IF p[1] > 0 THEN 1 ELSE IF p[1] < 0 THEN -1 ELSE PSign(Tail(p))

NaN == [n |-> <<>>, d |-> <<>>]
IsNaN(x) == x.d = <<>>

\* n / d for d # 0, with the common integer factor removed and d positive
Rat(n, d) ==
  IF n = <<>> THEN [n |-> <<>>, d |-> <<1>>]
  ELSE LET g == PSign(d) * GCD(PContent(n), PContent(d))
       IN  [n |-> [k \in 1..Len(n) |-> n[k] \div g],
            d |-> [k \in 1..Len(d) |-> d[k] \div g]]

Int2Rat(k) == [n |-> PInt(k), d |-> <<1>>]
Frac(k, m) == Rat(PInt(k), <<m>>)

RAdd(a, b) ==
  IF IsNaN(a) \/ IsNaN(b) THEN NaN
  ELSE IF a.d = b.d THEN Rat(PAdd(a.n, b.n), a.d)
  ELSE Rat(PAdd(PMul(a.n, b.d), PMul(b.n, a.d)), PMul(a.d, b.d))

RNeg(a) == [n |-> PNeg(a.n), d |-> a.d]

RSub(a, b) == RAdd(a, RNeg(b))

RMul(a, b) ==
  IF IsNaN(a) \/ IsNaN(b) THEN NaN
  ELSE IF a.d = b.n THEN Rat(a.n, b.d)
  ELSE IF a.n = b.d THEN Rat(b.n, a.d)
  ELSE Rat(PMul(a.n, b.n), PMul(a.d, b.d))

\* a / b; 0 / 0 is not-a-number (no other division by zero occurs: every
\* other divisor of the program is an integer plus 1e-6)
RDiv(a, b) ==
  IF IsNaN(a) \/ IsNaN(b) \/ b.n = <<>> THEN NaN
  ELSE RMul(a, Rat(b.d, b.n))

\* a == b as numbers (not-a-number equals nothing)
REq(a, b) == ~IsNaN(a) /\ ~IsNaN(b) /\ PMul(a.n, b.d) = PMul(b.n, a.d)

RLess(a, b) ==
  ~IsNaN(a) /\ ~IsNaN(b) /\ PSign(PAdd(PMul(b.n, a.d), PNeg(PMul(a.n, b.d)))) > 0

\* the literal 1e-6
eps == [n |-> <<0, 1>>, d |-> <<1>>]

(***************************************************************************)
(* numpy: shapes, column slices, broadcasting.                             *)
(***************************************************************************)
n_rows(data) == Len(data)
n_cols(data) == Len(data[1])

Column(data, i) == [r \in 1..n_rows(data) |-> data[r][i]]

\* data[:, i] = col
SetColumn(data, i, col) ==
  [r \in 1..n_rows(data) |-> [data[r] EXCEPT ![i] = col[r]]]

\* A min_val / max_val value: a scalar, or a 1-D vector.
Scalar(x) == [shape |-> "scalar", v |-> <<x>>]
Vector(s) == [shape |-> "vector", v |-> s]

\* v[i] (i from 1): a scalar cannot be indexed, a vector only within its length
Indexable(p, i) == p.shape = "vector" /\ i <= Len(p.v)

\* whether  data[:, i] = data[:, i] (op) p  is accepted for a column of n cells
Broadcastable(p, n) == p.shape = "scalar" \/ Len(p.v) = 1 \/ Len(p.v) = n

\* the operand that cell r of the column meets in  data[:, i] (op) p
Operand(p, r) == IF p.shape = "scalar" \/ Len(p.v) = 1 THEN p.v[1] ELSE p.v[r]

\* np.nanmin / np.nanmax of a column: not-a-number entries are ignored, and
\* the result is not-a-number when there is no other entry
nanmin(col) ==
  LET S == {r \in DOMAIN col : ~IsNaN(col[r])}
  IN  IF S = {} THEN NaN
      ELSE col[CHOOSE r \in S : \A q \in S : ~RLess(col[q], col[r])]

nanmax(col) ==
  LET S == {r \in DOMAIN col : ~IsNaN(col[r])}
  IN  IF S = {} THEN NaN
      ELSE col[CHOOSE r \in S : \A q \in S : ~RLess(col[r], col[q])]

(***************************************************************************)
(* normalization (data, parameters=None)                                   *)
(***************************************************************************)
NoParameters == [given |-> FALSE, min_val |-> Vector(<<>>), max_val |-> Vector(<<>>)]
Parameters(mn, mx) == [given |-> TRUE, min_val |-> mn, max_val |-> mx]

\* FitColumn with max_val[i] taken before the column is shifted by its minimum
FitColumn_max_before_shift(st, i) ==
  LET mn  == nanmin(Column(st.norm_data, i))
      mx  == nanmax(Column(st.norm_data, i))
      d1  == SetColumn(st.norm_data, i,
               [r \in 1..n_rows(st.norm_data) |-> RSub(st.norm_data[r][i], mn)])
      den == RAdd(nanmax(Column(d1, i)), eps)
      d2  == SetColumn(d1, i, [r \in 1..n_rows(d1) |-> RDiv(d1[r][i], den)])
  IN  [norm_data |-> d2,
       min_val |-> Append(st.min_val, mn),
       max_val |-> Append(st.max_val, mx)]

\* lines 52-56: one pass of the fit-mode loop over column i
FitColumn(st, i) ==
  LET mn  == nanmin(Column(st.norm_data, i))
      d1  == SetColumn(st.norm_data, i,
               [r \in 1..n_rows(st.norm_data) |-> RSub(st.norm_data[r][i], mn)])
      mx  == nanmax(Column(d1, i))
      den == RAdd(nanmax(Column(d1, i)), eps)
      d2  == SetColumn(d1, i, [r \in 1..n_rows(d1) |-> RDiv(d1[r][i], den)])
  IN  [norm_data |-> d2,
       min_val |-> Append(st.min_val, mn),
       max_val |-> Append(st.max_val, mx)]

RECURSIVE FitLoop(_, _, _)
FitLoop(st, i, dim) ==
  IF i > dim THEN st ELSE FitLoop(FitColumn(st, i), i + 1, dim)

\* lines 67-69: one pass of the apply-mode loop over column i; the operands
\* are min_val and max_val themselves, not their entry i
ApplyColumn(st, i, min_val, max_val) ==
  IF ~st.ok \/ ~Broadcastable(min_val, n_rows(st.norm_data)) THEN [st EXCEPT !.ok = FALSE]
  ELSE LET d1 == SetColumn(st.norm_data, i,
                   [r \in 1..n_rows(st.norm_data) |->
                       RSub(st.norm_data[r][i], Operand(min_val, r))])
       IN  IF ~Broadcastable(max_val, n_rows(d1)) THEN [st EXCEPT !.ok = FALSE]
           ELSE [ok |-> TRUE,
                 norm_data |-> SetColumn(d1, i,
                   [r \in 1..n_rows(d1) |->
                       RDiv(d1[r][i], RAdd(Operand(max_val, r), eps))])]

RECURSIVE ApplyLoop(_, _, _, _, _)
ApplyLoop(st, i, dim, min_val, max_val) ==
  IF i > dim THEN st
  ELSE ApplyLoop(ApplyColumn(st, i, min_val, max_val), i + 1, dim, min_val, max_val)

\* The outcome: ok (FALSE when the call raised), the two results, and the
\* caller's array after the call.
normalization(data, parameters) ==
  LET dim == n_cols(data)
  IN  IF ~parameters.given
      THEN LET st == FitLoop([norm_data |-> data, min_val |-> <<>>, max_val |-> <<>>],
                             1, dim)
           IN  [ok |-> TRUE, norm_data |-> st.norm_data,
                norm_parameters |-> Parameters(Vector(st.min_val), Vector(st.max_val)),
                data |-> data]
      ELSE LET st == ApplyLoop([ok |-> TRUE, norm_data |-> data], 1, dim,
                               parameters.min_val, parameters.max_val)
           IN  [ok |-> st.ok,
                norm_data |-> IF st.ok THEN st.norm_data ELSE <<>>,
                norm_parameters |-> IF st.ok THEN parameters ELSE NoParameters,
                data |-> data]

(***************************************************************************)
(* renormalization (norm_data, norm_parameters)                            *)
(*                                                                         *)
(* renorm_data is updated in place statement by statement, so what the     *)
(* try block did before it raised is what the except block starts from.    *)
(* scaled[i] and shifted[i] count the times column i was multiplied and    *)
(* added to.                                                               *)
(***************************************************************************)
MulColumn(st, i, f) ==
  [st EXCEPT !.renorm_data = SetColumn(st.renorm_data, i,
                [r \in 1..n_rows(st.renorm_data) |-> RMul(st.renorm_data[r][i], f[r])]),
             !.scaled[i] = @ + 1]

AddColumn(st, i, f) ==
  [st EXCEPT !.renorm_data = SetColumn(st.renorm_data, i,
                [r \in 1..n_rows(st.renorm_data) |-> RAdd(st.renorm_data[r][i], f[r])]),
             !.shifted[i] = @ + 1]

\* TryLoop with the two statements of the loop body in the other order
RECURSIVE TryLoop_shift_first(_, _, _, _, _)
TryLoop_shift_first(st, i, dim, min_val, max_val) ==
  IF i > dim THEN st
  ELSE IF ~Indexable(min_val, i) THEN [st EXCEPT !.raised = TRUE]
  ELSE LET rows == 1..n_rows(st.renorm_data)
           s1 == AddColumn(st, i, [r \in rows |-> min_val.v[i]])
       IN  IF ~Indexable(max_val, i) THEN [s1 EXCEPT !.raised = TRUE]
           ELSE TryLoop_shift_first(
                  MulColumn(s1, i, [r \in rows |-> RAdd(max_val.v[i], eps)]),
                  i + 1, dim, min_val, max_val)

\* lines 93-95: the try block from column i on; raised is TRUE when an
\* indexing max_val[i] or min_val[i] failed
RECURSIVE TryLoop(_, _, _, _, _)
TryLoop(st, i, dim, min_val, max_val) ==
  IF i > dim THEN st
  ELSE IF ~Indexable(max_val, i) THEN [st EXCEPT !.raised = TRUE]
  ELSE LET rows == 1..n_rows(st.renorm_data)
           s1 == MulColumn(st, i, [r \in rows |-> RAdd(max_val.v[i], eps)])
       IN  IF ~Indexable(min_val, i) THEN [s1 EXCEPT !.raised = TRUE]
           ELSE TryLoop(AddColumn(s1, i, [r \in rows |-> min_val.v[i]]),
                        i + 1, dim, min_val, max_val)

\* lines 97-99: the except block from column i on; ok is FALSE when a
\* statement of it raised, which ends the call
RECURSIVE ExceptLoop(_, _, _, _, _)
ExceptLoop(st, i, dim, min_val, max_val) ==
  LET rows == 1..n_rows(st.renorm_data)
  IN  IF i > dim THEN st
      ELSE IF ~Broadcastable(max_val, n_rows(st.renorm_data)) THEN [st EXCEPT !.ok = FALSE]
      ELSE LET s1 == MulColumn(st, i, [r \in rows |-> RAdd(Operand(max_val, r), eps)])
           IN  IF ~Broadcastable(min_val, n_rows(st.renorm_data))
               THEN [s1 EXCEPT !.ok = FALSE]
               ELSE ExceptLoop(AddColumn(s1, i, [r \in rows |-> Operand(min_val, r)]),
                               i + 1, dim, min_val, max_val)

renormalization(norm_data, norm_parameters) ==
  LET min_val == norm_parameters.min_val
      max_val == norm_parameters.max_val
      dim == n_cols(norm_data)
      st0 == [ok |-> TRUE, raised |-> FALSE, renorm_data |-> norm_data,
              scaled |-> [i \in 1..dim |-> 0], shifted |-> [i \in 1..dim |-> 0]]
      st1 == TryLoop(st0, 1, dim, min_val, max_val)
  IN  IF st1.raised THEN ExceptLoop(st1, 1, dim, min_val, max_val) ELSE st1

(***************************************************************************)
(* rmse_loss (ori_data, imputed_data, data_m)                              *)
(***************************************************************************)
\* np.sum of an array, row by row
RECURSIVE SumCells(_, _, _)
SumCells(a, r, c) ==
  IF r > n_rows(a) THEN Int2Rat(0)
  ELSE IF c > n_cols(a) THEN SumCells(a, r + 1, 1)
  ELSE RAdd(a[r][c], SumCells(a, r, c + 1))

\* The outcome: ok (FALSE when the call raised) and radicand, the number under
\* the square root: the value returned is sqrt(radicand), which is 0 exactly
\* when radicand is 0 and not-a-number when radicand is.
rmse_loss(ori_data, imputed_data, data_m) ==
  LET m   == data_m
      fit == normalization(ori_data, NoParameters)
      app == normalization(imputed_data, fit.norm_parameters)
      one == Int2Rat(1)
      sq  == [r \in 1..n_rows(m) |-> [c \in 1..n_cols(m) |->
                LET t == RSub(RMul(RSub(one, m[r][c]), fit.norm_data[r][c]),
                              RMul(RSub(one, m[r][c]), app.norm_data[r][c]))
                IN  RMul(t, t)]]
      comp == [r \in 1..n_rows(m) |-> [c \in 1..n_cols(m) |-> RSub(one, m[r][c])]]
      nominator == SumCells(sq, 1, 1)
      denominator == SumCells(comp, 1, 1)
  IN  IF ~app.ok THEN [ok |-> FALSE, radicand |-> NaN]
      ELSE [ok |-> TRUE, radicand |-> RDiv(nominator, denominator)]

(***************************************************************************)
(* np.random: one generator shared by the whole process.  Its state is a   *)
(* number below RngMod, a draw steps it (a full-period congruential step)  *)
(* and yields the new state x as the double x / RngMod of [0, 1).          *)
(***************************************************************************)
SEED == 7

\* np.random.seed that leaves the generator as it finds it
np_random_seed_skipped(gen, seed) == gen

\* np.random.seed(seed) on the generator in state gen: the state it leaves
np_random_seed(gen, seed) == seed % RngMod

RngStep(gen) == (5 * gen + 3) % RngMod

RECURSIVE RngDraws(_, _)
\* the k doubles drawn from state gen on, as generator states
RngDraws(gen, k) == IF k = 0 THEN <<>> ELSE <<RngStep(gen)>> \o RngDraws(RngStep(gen), k - 1)

RECURSIVE RngAfter(_, _)
RngAfter(gen, k) == IF k = 0 THEN gen ELSE RngAfter(RngStep(gen), k - 1)

\* np.random.uniform(low, high, size = [rows, cols]): rows * cols draws,
\* filled row by row
np_random_uniform(gen, low, high, rows, cols) ==
  LET xs == RngDraws(gen, rows * cols)
  IN  [gen |-> RngAfter(gen, rows * cols),
       value |-> [r \in 1..rows |-> [c \in 1..cols |->
                   RAdd(low, RMul(RSub(high, low), Frac(xs[(r - 1) * cols + c], RngMod)))]]]

\* np.random.permutation(total): a shuffle of 0 .. total-1, one draw for each
\* position from the last down to the second
RECURSIVE Shuffle(_, _, _)
Shuffle(gen, perm, i) ==
  IF i <= 1 THEN [gen |-> gen, value |-> perm]
  ELSE LET x == RngStep(gen)
           j == (x % i) + 1
       IN  Shuffle(x, [perm EXCEPT ![i] = perm[j], ![j] = perm[i]], i - 1)

np_random_permutation(gen, total) == Shuffle(gen, [k \in 1..total |-> k - 1], total)

(***************************************************************************)
(* The samplers.  Each is its reseed (its first statement) followed by its *)
(* draw (the rest of it); the outcome is the generator's state afterwards, *)
(* raised (whether the call ended in an exception) and the value returned. *)
(***************************************************************************)
\* lines 162-164
binary_sampler_draw(gen, p, rows, cols) ==
  LET u == np_random_uniform(gen, Int2Rat(0), Int2Rat(1), rows, cols)
  IN  [gen |-> u.gen, raised |-> FALSE,
       value |-> [r \in 1..rows |-> [c \in 1..cols |->
                   IF RLess(u.value[r][c], p) THEN 1 ELSE 0]]]

\* binary_sampler drawing from the generator as it finds it
binary_sampler_not_reseeded(gen, p, rows, cols) == binary_sampler_draw(gen, p, rows, cols)

binary_sampler(gen, p, rows, cols) ==
  binary_sampler_draw(np_random_seed(gen, SEED), p, rows, cols)

\* line 180
uniform_sampler_draw(gen, low, high, rows, cols) ==
  LET u == np_random_uniform(gen, low, high, rows, cols)
  IN  [gen |-> u.gen, raised |-> FALSE, value |-> u.value]

uniform_sampler(gen, low, high, rows, cols) ==
  uniform_sampler_draw(np_random_seed(gen, SEED), low, high, rows, cols)

\* lines 194-196; the slice total_idx[:batch_size] of a sequence shorter than
\* batch_size is the whole sequence
sample_batch_index_draw(gen, total, batch_size) ==
  LET total_idx == np_random_permutation(gen, total)
  IN  [gen |-> total_idx.gen, raised |-> FALSE,
       value |-> SubSeq(total_idx.value, 1, Min(batch_size, total))]

sample_batch_index(gen, total, batch_size) ==
  sample_batch_index_draw(np_random_seed(gen, SEED), total, batch_size)

(***************************************************************************)
(* get_data (X, miss_rate)                                                 *)
(***************************************************************************)
MissingMarker == ".|."

\* miss_data_x[data_m == 0] = ".|."
MaskAssign(a, data_m, marker) ==
  [r \in 1..n_rows(a) |-> [c \in 1..n_cols(a) |->
     IF data_m[r][c] = 0 THEN marker ELSE a[r][c]]]

\* get_data working on X itself instead of on a copy of it
get_data_no_copy(gen, X, miss_rate) ==
  LET data_m == binary_sampler(gen, RSub(Int2Rat(1), miss_rate), n_rows(X), n_cols(X))
      miss_data_x == MaskAssign(X, data_m.value, MissingMarker)
  IN  [gen |-> data_m.gen, X |-> miss_data_x, first |-> miss_data_x,
       second |-> miss_data_x]

\* The outcome: the generator's state, X after the call, and the two results
\* (the first is X itself, as it is when the call returns).
get_data(gen, X, miss_rate) ==
  LET data_m == binary_sampler(gen, RSub(Int2Rat(1), miss_rate), n_rows(X), n_cols(X))
      miss_data_x == MaskAssign(X, data_m.value, MissingMarker)
  IN  [gen |-> data_m.gen, X |-> X, first |-> X, second |-> miss_data_x]

(***************************************************************************)
(* rounding (imputed_data, data_x)                                         *)
(***************************************************************************)
CategoricalThreshold == 20

\* np.round of a number written without e: the nearest integer, the even one
\* of the two when it lies half way between them
np_round(x) ==
  IF IsNaN(x) THEN NaN
  ELSE LET a == IF x.n = <<>> THEN 0 ELSE x.n[1]
           b == x.d[1]
           q == a \div b
           rem == a % b
       IN  Int2Rat(IF 2 * rem < b THEN q
                   ELSE IF 2 * rem > b THEN q + 1
                   ELSE IF q % 2 = 0 THEN q ELSE q + 1)

\* len(np.unique(temp)) for temp = data_x[~np.isnan(data_x[:, i]), i]
UniqueCount(data_x, i) ==
  Cardinality({data_x[r][i] : r \in {q \in 1..n_rows(data_x) : ~IsNaN(data_x[q][i])}})

RoundColumn(rounded_data, i) ==
  SetColumn(rounded_data, i,
            [r \in 1..n_rows(rounded_data) |-> np_round(rounded_data[r][i])])

\* lines 118-122 from column i on, with threshold as the categorical limit
RECURSIVE RoundLoop(_, _, _, _)
RoundLoop(rounded_data, data_x, i, threshold) ==
  IF i > n_cols(data_x) THEN rounded_data
  ELSE RoundLoop(IF UniqueCount(data_x, i) < threshold
                 THEN RoundColumn(rounded_data, i) ELSE rounded_data,
                 data_x, i + 1, threshold)

\* rounding with a column of exactly 20 distinct values taken as categorical
rounding_threshold_inclusive(imputed_data, data_x) ==
  [imputed_data |-> imputed_data,
   rounded_data |-> RoundLoop(imputed_data, data_x, 1, CategoricalThreshold + 1)]

\* The outcome: imputed_data after the call, and the array returned.
rounding(imputed_data, data_x) ==
  [imputed_data |-> imputed_data,
   rounded_data |-> RoundLoop(imputed_data, data_x, 1, CategoricalThreshold)]

(***************************************************************************)
(* The normalizer's callers.                                               *)
(***************************************************************************)
Values == {Int2Rat(k) : k \in 0..MaxVal}
Cells == Values \cup {NaN}
ApplyValues == {Int2Rat(k) : k \in 0..MaxApplyVal}

Shapes == {s \in (1..MaxCells) \X (1..MaxCells) : s[1] * s[2] <= MaxCells}

Arrays(C) == UNION {[1..s[1] -> [1..s[2] -> C]] : s \in Shapes}

ParamValues ==
  {Scalar(x) : x \in ApplyValues}
    \cup UNION {{Vector(s) : s \in [1..l -> ApplyValues]} : l \in 1..MaxParamLen}

NoOutcome == [ok |-> FALSE]

\* the variables of the other components, while a component is looked at
NormIdle ==
  /\ in_data = <<>> /\ in_parameters = NoParameters /\ npc = "idle"
  /\ norm_out = NoOutcome /\ renorm_out = NoOutcome
RmseIdle ==
  /\ rm_ori_data = <<>> /\ rm_imputed_data = <<>> /\ rm_data_m = <<>> /\ rpc = "idle"
  /\ rmse_out = NoOutcome
NoCall == [made |-> FALSE]
SamplersIdle == call_a = NoCall /\ call_b = NoCall
GetDataIdle ==
  /\ gd_X = <<>> /\ gd_miss_rate = Int2Rat(0) /\ gpc = "idle" /\ gd_out = NoOutcome
RngIdle == rng = 0
Threads == {"t1", "t2"}
ThreadsIdle ==
  /\ tpc = [t \in Threads |-> "idle"] /\ tcall = [t \in Threads |-> NoCall]
  /\ tval = [t \in Threads |-> <<>>] /\ tdisturbed = [t \in Threads |-> FALSE]
RoundIdle ==
  /\ rd_imputed = <<>> /\ rd_data_x = <<>> /\ rdpc = "idle" /\ rd_out = NoOutcome

\* fit mode: any array, missing cells included, and no parameters
FitInit ==
  /\ in_data \in Arrays(Cells)
  /\ in_parameters = NoParameters
  /\ npc = "start"
  /\ norm_out = NoOutcome
  /\ renorm_out = NoOutcome
  /\ RmseIdle /\ RngIdle /\ SamplersIdle /\ GetDataIdle /\ ThreadsIdle /\ RoundIdle

\* apply mode: an array and parameters of the caller's, scalars or vectors
ApplyInit ==
  /\ in_data \in Arrays(ApplyValues)
  /\ in_parameters \in {Parameters(mn, mx) : mn \in ParamValues, mx \in ParamValues}
  /\ npc = "start"
  /\ norm_out = NoOutcome
  /\ renorm_out = NoOutcome
  /\ RmseIdle /\ RngIdle /\ SamplersIdle /\ GetDataIdle /\ ThreadsIdle /\ RoundIdle

\* norm_data, norm_parameters = normalization(data, parameters)
Normalize ==
  /\ npc = "start"
  /\ LET res == normalization(in_data, in_parameters)
     IN  /\ norm_out' = res
         /\ in_data' = res.data
         /\ npc' = IF res.ok THEN "normalized" ELSE "error"
  /\ UNCHANGED <<in_parameters, renorm_out, rmseVars, rng, samplerVars, getDataVars, threadVars, roundVars>>

\* renormalization(norm_data, norm_parameters) of what normalization returned
Renormalize ==
  /\ npc = "normalized"
  /\ renorm_out' = renormalization(norm_out.norm_data, norm_out.norm_parameters)
  /\ npc' = "renormalized"
  /\ UNCHANGED <<in_data, in_parameters, norm_out, rmseVars, rng, samplerVars, getDataVars, threadVars, roundVars>>

\* renormalization(data, parameters) of an array and parameters of the caller's
RenormalizeSupplied ==
  /\ npc = "start"
  /\ in_parameters.given
  /\ renorm_out' = renormalization(in_data, in_parameters)
  /\ npc' = "renormalized_supplied"
  /\ UNCHANGED <<in_data, in_parameters, norm_out, rmseVars, rng, samplerVars, getDataVars, threadVars, roundVars>>

FitNext == Normalize \/ Renormalize
ApplyNext == Normalize \/ Renormalize \/ RenormalizeSupplied

(***************************************************************************)
(* The error scorer's caller.                                              *)
(***************************************************************************)
RmseValues == ApplyValues
MaskValues == {Int2Rat(0), Int2Rat(1)}

\* three arrays of one shape; the two data arrays hold no missing value
RmseInit ==
  /\ NormIdle /\ RngIdle /\ SamplersIdle /\ GetDataIdle /\ ThreadsIdle /\ RoundIdle
  /\ \E s \in Shapes :
       /\ rm_ori_data \in [1..s[1] -> [1..s[2] -> RmseValues]]
       /\ rm_imputed_data \in [1..s[1] -> [1..s[2] -> RmseValues]]
       /\ rm_data_m \in [1..s[1] -> [1..s[2] -> MaskValues]]
  /\ rpc = "start"
  /\ rmse_out = NoOutcome

\* rmse = rmse_loss(rm_ori_data, rm_imputed_data, rm_data_m)
RmseLoss ==
  /\ rpc = "start"
  /\ rmse_out' = rmse_loss(rm_ori_data, rm_imputed_data, rm_data_m)
  /\ rpc' = IF rmse_out'.ok THEN "returned" ELSE "error"
  /\ UNCHANGED <<rm_ori_data, rm_imputed_data, rm_data_m, normVars, rng, samplerVars, getDataVars, threadVars, roundVars>>

RmseNext == RmseLoss

SpecRmse == RmseInit /\ [][RmseNext]_vars

(***************************************************************************)
(* The samplers' callers: one thread of control calling the samplers in    *)
(* any order with any arguments, between other uses of the generator.      *)
(***************************************************************************)
Probabilities == {Frac(1, 2), Int2Rat(1)}
Intervals == {<<Int2Rat(0), Int2Rat(1)>>, <<Int2Rat(-1), Int2Rat(1)>>}
SampleDims == 1..MaxSampleDim

SamplersInit ==
  /\ NormIdle /\ RmseIdle /\ GetDataIdle /\ ThreadsIdle /\ RoundIdle
  /\ rng \in 0..(RngMod - 1)
  /\ call_a = NoCall
  /\ call_b = NoCall

\* A call fn(args) that found the generator in state rng returned res.  The
\* first call made is kept in call_a; a later call of the same sampler with
\* the same arguments is kept in call_b (disturbed: it found the generator in
\* another state than the first call did).
FirstCall(fn, args, res) ==
  IF call_a.made THEN call_a
  ELSE [made |-> TRUE, fn |-> fn, args |-> args, entry |-> rng,
        raised |-> res.raised, value |-> res.value]

LaterCall(fn, args, res) ==
  IF call_a.made /\ call_a.fn = fn /\ call_a.args = args
  THEN [made |-> TRUE, disturbed |-> rng # call_a.entry, value |-> res.value]
  ELSE call_b

BinarySampler ==
  /\ \E p \in Probabilities, rows \in SampleDims, cols \in SampleDims :
       LET res == binary_sampler(rng, p, rows, cols)
       IN  /\ rng' = res.gen
           /\ call_a' = FirstCall("binary_sampler", <<p, rows, cols>>, res)
           /\ call_b' = LaterCall("binary_sampler", <<p, rows, cols>>, res)
  /\ UNCHANGED <<normVars, rmseVars, getDataVars, threadVars, roundVars>>

UniformSampler ==
  /\ \E i \in Intervals, rows \in SampleDims, cols \in SampleDims :
       LET res == uniform_sampler(rng, i[1], i[2], rows, cols)
       IN  /\ rng' = res.gen
           /\ call_a' = FirstCall("uniform_sampler", <<i[1], i[2], rows, cols>>, res)
           /\ call_b' = LaterCall("uniform_sampler", <<i[1], i[2], rows, cols>>, res)
  /\ UNCHANGED <<normVars, rmseVars, getDataVars, threadVars, roundVars>>

SampleBatchIndex ==
  /\ \E total \in 0..MaxTotal, batch_size \in 0..(MaxTotal + 1) :
       LET res == sample_batch_index(rng, total, batch_size)
       IN  /\ rng' = res.gen
           /\ call_a' = FirstCall("sample_batch_index", <<total, batch_size>>, res)
           /\ call_b' = LaterCall("sample_batch_index", <<total, batch_size>>, res)
  /\ UNCHANGED <<normVars, rmseVars, getDataVars, threadVars, roundVars>>

\* a draw from the generator elsewhere in the process
OtherDraw ==
  /\ rng' = RngStep(rng)
  /\ UNCHANGED <<normVars, rmseVars, samplerVars, getDataVars, threadVars, roundVars>>

\* a reseed of the generator elsewhere in the process
OtherSeed ==
  /\ \E s \in 0..(RngMod - 1) : rng' = np_random_seed(rng, s)
  /\ UNCHANGED <<normVars, rmseVars, samplerVars, getDataVars, threadVars, roundVars>>

SamplersNext == BinarySampler \/ UniformSampler \/ SampleBatchIndex \/ OtherDraw \/ OtherSeed

SpecSamplers == SamplersInit /\ [][SamplersNext]_vars

(***************************************************************************)
(* The missingness injector's caller.                                      *)
(***************************************************************************)
Genotypes == {"0|1", "1|0"}
MissRates == {Int2Rat(0), Frac(1, 2), Int2Rat(1)}

\* X holds complete data: no cell of it is the missing marker
GetDataInit ==
  /\ NormIdle /\ RmseIdle /\ SamplersIdle /\ ThreadsIdle /\ RoundIdle
  /\ rng \in 0..(RngMod - 1)
  /\ gd_X \in UNION {[1..r -> [1..c -> Genotypes]] : r \in SampleDims, c \in SampleDims}
  /\ gd_miss_rate \in MissRates
  /\ gpc = "start"
  /\ gd_out = NoOutcome

\* ori, miss = get_data(X, miss_rate)
GetData ==
  /\ gpc = "start"
  /\ LET res == get_data(rng, gd_X, gd_miss_rate)
     IN  /\ rng' = res.gen
         /\ gd_X' = res.X
         /\ gd_out' = [ok |-> TRUE, passed |-> gd_X, first |-> res.first,
                       second |-> res.second]
  /\ gpc' = "returned"
  /\ UNCHANGED <<gd_miss_rate, normVars, rmseVars, samplerVars, threadVars, roundVars>>

GetDataNext == GetData

SpecGetData == GetDataInit /\ [][GetDataNext]_vars

(***************************************************************************)
(* Two threads, each making one sampler call with no lock around it.  A    *)
(* call is two calls into np.random, its reseed and its draw, and the      *)
(* other thread may run between them.                                      *)
(***************************************************************************)
ThreadCalls ==
  {[made |-> TRUE, fn |-> "binary_sampler", args |-> <<p, 1, cols>>] :
      p \in Probabilities, cols \in SampleDims}
  \cup {[made |-> TRUE, fn |-> "uniform_sampler", args |-> <<Int2Rat(0), Int2Rat(1), 1, cols>>] :
      cols \in SampleDims}
  \cup {[made |-> TRUE, fn |-> "sample_batch_index", args |-> <<total, total>>] :
      total \in 2..MaxTotal}

\* the draw of call c from the generator in state gen
DrawOf(c, gen) ==
  IF c.fn = "binary_sampler"
  THEN binary_sampler_draw(gen, c.args[1], c.args[2], c.args[3])
  ELSE IF c.fn = "uniform_sampler"
  THEN uniform_sampler_draw(gen, c.args[1], c.args[2], c.args[3], c.args[4])
  ELSE sample_batch_index_draw(gen, c.args[1], c.args[2])

\* what call c returns when nothing else runs during it
Alone(c) ==
  IF c.fn = "binary_sampler"
  THEN binary_sampler(0, c.args[1], c.args[2], c.args[3]).value
  ELSE IF c.fn = "uniform_sampler"
  THEN uniform_sampler(0, c.args[1], c.args[2], c.args[3], c.args[4]).value
  ELSE sample_batch_index(0, c.args[1], c.args[2]).value

ThreadsInit ==
  /\ NormIdle /\ RmseIdle /\ SamplersIdle /\ GetDataIdle /\ RoundIdle
  /\ rng \in 0..(RngMod - 1)
  /\ tpc = [t \in Threads |-> "idle"]
  /\ tcall = [t \in Threads |-> NoCall]
  /\ tval = [t \in Threads |-> <<>>]
  /\ tdisturbed = [t \in Threads |-> FALSE]

\* the threads caught between their reseed and their draw by a step of t
Caught(t) == [u \in Threads |-> tdisturbed[u] \/ (u # t /\ tpc[u] = "seeded")]

\* thread t enters a sampler and runs np.random.seed(7)
ThreadReseed(t) ==
  /\ tpc[t] = "idle"
  /\ \E c \in ThreadCalls : tcall' = [tcall EXCEPT ![t] = c]
  /\ rng' = np_random_seed(rng, SEED)
  /\ tpc' = [tpc EXCEPT ![t] = "seeded"]
  /\ tdisturbed' = Caught(t)
  /\ UNCHANGED <<tval, normVars, rmseVars, samplerVars, getDataVars, roundVars>>

\* thread t runs the rest of its sampler: the draw, and the return
ThreadDraw(t) ==
  /\ tpc[t] = "seeded"
  /\ LET res == DrawOf(tcall[t], rng)
     IN  /\ rng' = res.gen
         /\ tval' = [tval EXCEPT ![t] = res.value]
  /\ tpc' = [tpc EXCEPT ![t] = "returned"]
  /\ tdisturbed' = Caught(t)
  /\ UNCHANGED <<tcall, normVars, rmseVars, samplerVars, getDataVars, roundVars>>

ThreadsNext == \E t \in Threads : ThreadReseed(t) \/ ThreadDraw(t)

SpecThreads == ThreadsInit /\ [][ThreadsNext]_vars

(***************************************************************************)
(* The categorical rounder's caller.                                       *)
(***************************************************************************)
\* a column of data_x with k distinct values: 1 .. k, then 1 and missing in turn
DataXColumn(rows, k) ==
  [r \in 1..rows |-> IF r <= k THEN Int2Rat(r)
                     ELSE IF k >= 1 /\ r % 2 = 0 THEN Int2Rat(1) ELSE NaN]

\* imputed values in quarters, some of them half way between two integers
ImputedArray(rows, cols, o) ==
  [r \in 1..rows |-> [c \in 1..cols |-> Frac(3 * r + 5 * c + o - 12, 4)]]

RoundInit ==
  /\ NormIdle /\ RmseIdle /\ SamplersIdle /\ GetDataIdle /\ ThreadsIdle /\ RngIdle
  /\ \E rows \in {1, MaxRoundRows - 1, MaxRoundRows}, cols \in 1..2 :
       /\ \E ks \in [1..cols -> 0..rows] :
            rd_data_x = [r \in 1..rows |-> [c \in 1..cols |-> DataXColumn(rows, ks[c])[r]]]
       /\ \E o \in 0..3 : rd_imputed = ImputedArray(rows, cols, o)
  /\ rdpc = "start"
  /\ rd_out = NoOutcome

\* rounded = rounding(imputed_data, data_x)
Rounding ==
  /\ rdpc = "start"
  /\ LET res == rounding(rd_imputed, rd_data_x)
     IN  /\ rd_imputed' = res.imputed_data
         /\ rd_out' = [ok |-> TRUE, passed |-> rd_imputed, rounded_data |-> res.rounded_data]
  /\ rdpc' = "returned"
  /\ UNCHANGED <<rd_data_x, normVars, rmseVars, rng, samplerVars, getDataVars, threadVars>>

RoundNext == Rounding

SpecRounding == RoundInit /\ [][RoundNext]_vars

SpecFit == FitInit /\ [][FitNext]_vars
SpecApply == ApplyInit /\ [][ApplyNext]_vars

(***************************************************************************)
(* Properties of the normalizer.                                           *)
(***************************************************************************)
Observed(data, i) == {data[r][i] : r \in {q \in 1..n_rows(data) : ~IsNaN(data[q][i])}}

\* x is the least / the greatest of the non-missing values of column i
IsMinimumOf(x, data, i) ==
  /\ \E y \in Observed(data, i) : REq(x, y)
  /\ \A y \in Observed(data, i) : ~RLess(y, x)
IsMaximumOf(x, data, i) ==
  /\ \E y \in Observed(data, i) : REq(x, y)
  /\ \A y \in Observed(data, i) : ~RLess(x, y)

HasMissing(data) == \E r \in 1..n_rows(data), i \in 1..n_cols(data) : IsNaN(data[r][i])
EveryColumnObserved(data) == \A i \in 1..n_cols(data) : Observed(data, i) # {}

Fitted == npc \in {"normalized", "renormalized"} /\ ~in_parameters.given
Applied == npc \in {"normalized", "renormalized", "error"} /\ in_parameters.given

PerColumnVectors(data, parameters) ==
  /\ parameters.min_val.shape = "vector" /\ Len(parameters.min_val.v) = n_cols(data)
  /\ parameters.max_val.shape = "vector" /\ Len(parameters.max_val.v) = n_cols(data)

\* C2 as stated: in apply mode with per-column vectors, normalization succeeds
\* for every shape, returns the parameters unchanged, and turns cell (r, i)
\* into (data[r,i] - min_val[i]) / (max_val[i] - min_val[i] + 1e-6).  The
\* divisor is accepted in either reading of max_val[i]: the column's maximum,
\* as the claim writes it, or the column's range, as fit mode stores it
\* (then the divisor is max_val[i] + 1e-6).
C2_ApplyPerColumn ==
  (Applied /\ PerColumnVectors(in_data, in_parameters)) =>
    /\ norm_out.ok
    /\ norm_out.norm_parameters = in_parameters
    /\ \A r \in 1..n_rows(in_data), i \in 1..n_cols(in_data) :
         LET mn == in_parameters.min_val.v[i]
             mx == in_parameters.max_val.v[i]
             shifted == RSub(in_data[r][i], mn)
         IN  \/ REq(norm_out.norm_data[r][i], RDiv(shifted, RAdd(RSub(mx, mn), eps)))
             \/ REq(norm_out.norm_data[r][i], RDiv(shifted, RAdd(mx, eps)))

\* C3 as stated: for a dataset with a non-missing value in every column, fit
\* mode returns min_val[i] = the minimum and max_val[i] = the maximum of the
\* non-missing values of column i, hence max_val[i] >= min_val[i].
C3_MaxIsColumnMaximum ==
  (Fitted /\ EveryColumnObserved(in_data)) =>
    \A i \in 1..n_cols(in_data) :
      LET mn == norm_out.norm_parameters.min_val.v[i]
          mx == norm_out.norm_parameters.max_val.v[i]
      IN  /\ IsMinimumOf(mn, in_data, i)
          /\ IsMaximumOf(mx, in_data, i)
          /\ ~RLess(mx, mn)

\* C3 amended: for a dataset with a non-missing value in every column, fit
\* mode returns min_val[i] = the minimum of the non-missing values of column i
\* and max_val[i] = their maximum minus their minimum (the range), hence
\* max_val[i] >= 0.
C3_MaxIsColumnRange ==
  (Fitted /\ EveryColumnObserved(in_data)) =>
    /\ Len(norm_out.norm_parameters.min_val.v) = n_cols(in_data)
    /\ Len(norm_out.norm_parameters.max_val.v) = n_cols(in_data)
    /\ \A i \in 1..n_cols(in_data) :
         LET mn == norm_out.norm_parameters.min_val.v[i]
             mx == norm_out.norm_parameters.max_val.v[i]
         IN  /\ IsMinimumOf(mn, in_data, i)
             /\ IsMaximumOf(RAdd(mx, mn), in_data, i)
             /\ ~RLess(mx, Int2Rat(0))

\* a fitted dataset with a missing cell, in which some column has a range
\* other than 0 above a minimum other than 0
C3_Witness ==
  /\ Fitted /\ EveryColumnObserved(in_data) /\ HasMissing(in_data)
  /\ \E i \in 1..n_cols(in_data) :
       /\ ~REq(norm_out.norm_parameters.min_val.v[i], Int2Rat(0))
       /\ ~REq(norm_out.norm_parameters.max_val.v[i], Int2Rat(0))
       /\ \E r \in 1..n_rows(in_data) : IsNaN(in_data[r][i])

\* C4: for a dataset without missing values, renormalization of what fit-mode
\* normalization returned gives back the dataset, cell for cell (exactly, in
\* the arithmetic of the reals).
C4_RoundTrip ==
  (npc = "renormalized" /\ ~in_parameters.given /\ ~HasMissing(in_data)) =>
    /\ renorm_out.ok
    /\ n_rows(renorm_out.renorm_data) = n_rows(in_data)
    /\ n_cols(renorm_out.renorm_data) = n_cols(in_data)
    /\ \A r \in 1..n_rows(in_data), i \in 1..n_cols(in_data) :
         REq(renorm_out.renorm_data[r][i], in_data[r][i])

\* a round trip of a dataset with a constant column (range 0) beside a column
\* that is not constant and has a minimum other than 0
C4_Witness ==
  /\ npc = "renormalized" /\ ~in_parameters.given /\ ~HasMissing(in_data)
  /\ \E i, j \in 1..n_cols(in_data) :
       /\ REq(norm_out.norm_parameters.max_val.v[i], Int2Rat(0))
       /\ ~REq(norm_out.norm_parameters.max_val.v[j], Int2Rat(0))
       /\ ~REq(norm_out.norm_parameters.min_val.v[j], Int2Rat(0))

\* C10 as stated: whichever path renormalization takes, a call that returns
\* has scaled and shifted every column exactly once.
C10_EveryColumnOnce ==
  (npc \in {"renormalized", "renormalized_supplied"} /\ renorm_out.ok) =>
    \A i \in 1..n_cols(renorm_out.renorm_data) :
      renorm_out.scaled[i] = 1 /\ renorm_out.shifted[i] = 1

(***************************************************************************)
(* Properties of the error scorer.                                         *)
(***************************************************************************)
\* C5 as stated: with at least one cell where rm_data_m is 0, if rm_imputed_data
\* equals rm_ori_data on every cell where rm_data_m is 0, rmse_loss returns 0.
C5_PerfectImputationScoresZero ==
  (/\ rpc \in {"returned", "error"}
   /\ \E r \in 1..n_rows(rm_data_m), c \in 1..n_cols(rm_data_m) : REq(rm_data_m[r][c], Int2Rat(0))
   /\ \A r \in 1..n_rows(rm_data_m), c \in 1..n_cols(rm_data_m) :
        REq(rm_data_m[r][c], Int2Rat(0)) => REq(rm_imputed_data[r][c], rm_ori_data[r][c]))
    => (rmse_out.ok /\ REq(rmse_out.radicand, Int2Rat(0)))

(***************************************************************************)
(* Properties of the samplers and of get_data.                             *)
(***************************************************************************)
\* C1: a later call of a sampler with the arguments of an earlier call
\* returns what the earlier call returned, whatever ran between the two.
C1_SameArgumentsSameResult ==
  (call_a.made /\ call_b.made) => call_b.value = call_a.value

\* binary_sampler(0.5, 2, 2) called twice, the second time finding the
\* generator in another state than the first time, and returning a matrix
\* that holds a 0 and a 1
C1_Witness ==
  /\ call_a.made /\ call_b.made /\ call_b.disturbed
  /\ call_a.fn = "binary_sampler" /\ call_a.args = <<Frac(1, 2), 2, 2>>
  /\ \E r, c, q, k \in 1..2 : call_b.value[r][c] = 0 /\ call_b.value[q][k] = 1

\* C6 as stated: sample_batch_index with batch_size > total raises, and
\* returns no sequence.
C6_OversizedBatchRaises ==
  (/\ call_a.made /\ call_a.fn = "sample_batch_index"
   /\ call_a.args[2] > call_a.args[1])
    => call_a.raised

BinaryMask(X, miss_rate) ==
  binary_sampler(0, RSub(Int2Rat(1), miss_rate), n_rows(X), n_cols(X)).value

\* C7: get_data leaves X as it was and returns it first; the second result
\* has the shape of X, holds the missing marker in exactly the cells where
\* binary_sampler(1 - miss_rate, rows, cols) is 0, and equals X in the cells
\* where the mask is 1.
C7_GetDataMasksACopy ==
  gpc = "returned" =>
    LET X == gd_out.passed
        data_m == BinaryMask(X, gd_miss_rate)
    IN  /\ gd_X = X
        /\ gd_out.first = X
        /\ n_rows(gd_out.second) = n_rows(X)
        /\ n_cols(gd_out.second) = n_cols(X)
        /\ \A r \in 1..n_rows(X), c \in 1..n_cols(X) :
             /\ (gd_out.second[r][c] = MissingMarker) <=> (data_m[r][c] = 0)
             /\ data_m[r][c] = 1 => gd_out.second[r][c] = X[r][c]

\* a 2 x 2 array of which get_data, entered with the generator in another
\* state than the seed leaves, marked some cells and kept others
C7_Witness ==
  /\ gpc = "returned"
  /\ n_rows(gd_out.passed) = 2 /\ n_cols(gd_out.passed) = 2
  /\ \E r, c, q, k \in 1..2 :
       /\ gd_out.second[r][c] = MissingMarker
       /\ gd_out.second[q][k] # MissingMarker
       /\ gd_out.passed[1][1] # gd_out.passed[2][2]

\* C9: a sampler call of a thread returns something else than the same call
\* returns when run alone only if the other thread reseeded or drew between
\* the call's reseed and its draw; C9_Witness is such a return, which is the
\* interleaving the claim speaks of.
C9_OnlyInterleavingChangesResult ==
  \A t \in Threads :
    (tpc[t] = "returned" /\ tval[t] # Alone(tcall[t])) => tdisturbed[t]

\* a thread whose call returned something else than it returns alone
C9_Witness ==
  \E t \in Threads : tpc[t] = "returned" /\ tval[t] # Alone(tcall[t])

(***************************************************************************)
(* Properties of the categorical rounder.                                  *)
(***************************************************************************)
\* y is an integer and no integer is nearer to x
IsNearestInteger(y, x) ==
  /\ y.d = <<1>> /\ Len(y.n) <= 1
  /\ ~RLess(Frac(1, 2), RSub(y, x))
  /\ ~RLess(Frac(1, 2), RSub(x, y))

\* C8: rounding leaves imputed_data as it was; in the array it returns, a
\* column whose data_x column has fewer than 20 distinct non-missing values
\* holds the nearest integer of every entry of imputed_data, and a column
\* whose data_x column has 20 or more holds the entries of imputed_data.
C8_RoundsCategoricalColumnsOnly ==
  rdpc = "returned" =>
    LET imputed_data == rd_out.passed
        rounded_data == rd_out.rounded_data
    IN  /\ rd_imputed = imputed_data
        /\ n_rows(rounded_data) = n_rows(imputed_data)
        /\ n_cols(rounded_data) = n_cols(imputed_data)
        /\ \A i \in 1..n_cols(rd_data_x) :
             IF Cardinality(Observed(rd_data_x, i)) < 20
             THEN \A r \in 1..n_rows(imputed_data) :
                    IsNearestInteger(rounded_data[r][i], imputed_data[r][i])
             ELSE \A r \in 1..n_rows(imputed_data) :
                    rounded_data[r][i] = imputed_data[r][i]

\* a call with a column of 19 distinct values and missing cells, rounded, an
\* entry of it half way between two integers, beside a column of exactly 20
\* distinct values, left alone and not integral
C8_Witness ==
  /\ rdpc = "returned" /\ n_cols(rd_data_x) = 2
  /\ Cardinality(Observed(rd_data_x, 1)) = 19
  /\ \E r \in 1..n_rows(rd_data_x) : IsNaN(rd_data_x[r][1])
  /\ \E r \in 1..n_rows(rd_data_x) :
       rd_out.passed[r][1].d = <<2>> /\ rd_out.rounded_data[r][1] # rd_out.passed[r][1]
  /\ Cardinality(Observed(rd_data_x, 2)) = 20
  /\ \E r \in 1..n_rows(rd_data_x) : rd_out.rounded_data[r][2].d # <<1>>
=============================================================================
